---- MODULE Spec2Model ----
(***************************************************************************)
(* Model of the snake game's simulation core: the entities (Point, Snake,  *)
(* Food) of snake_game/entities.py, the three game modes of                *)
(* snake_game/game_modes.py and the Game session of snake_game/game.py.    *)
(*                                                                         *)
(* A Point is the pair <<x, y>>; a snake body is a sequence of points with *)
(* the head first.  Random choices (random.randint, random.choice) are     *)
(* nondeterministic choices over every value the call can return.          *)
(***************************************************************************)
EXTENDS Integers, Sequences, FiniteSets, TLC

VARIABLES
    grid_size,          \* <<width, height>> of the session or of the call
    body,               \* Snake._body, head first
    direction,          \* Snake._direction
    food,               \* Food.position
    mode,               \* class of the game mode: "Classic", "Timed", "Challenge"
    score,              \* GameMode._score
    game_over,          \* GameMode._game_over
    time_limit,         \* TimedMode._time_limit
    time_remaining,     \* TimedMode._time_remaining
    last_update,        \* TimedMode._last_update (None until the first update)
    bonus_points,       \* TimedMode._bonus_points
    speed_multiplier,   \* ChallengeMode._speed_multiplier, in hundredths
    obstacles,          \* ChallengeMode._obstacles
    foods_eaten,        \* ChallengeMode._foods_eaten
    running,            \* Game._running
    game_started,       \* Game._game_started
    return_to_menu,     \* Game._return_to_menu
    now,                \* the reading time.time() gives
    pc,                 \* where Game.run is: in its loop, or returned
    call                \* the last operation: its name, arguments, result, pre-state

snakeVars == <<body, direction>>
timedVars == <<time_limit, time_remaining, last_update, bonus_points>>
challengeVars == <<speed_multiplier, obstacles, foods_eaten>>
modeVars == <<mode, score, game_over, timedVars, challengeVars>>
gameVars == <<running, game_started, return_to_menu, pc>>
vars == <<grid_size, snakeVars, food, modeVars, gameVars, now, call>>

(***************************************************************************)
(* Bounds of the model.                                                    *)
(***************************************************************************)
\* The grid of the calls made on a snake, a food or a mode alone.
UnitW == 3
UnitH == 2
\* Longest snake body drawn as an input of such a call.
MaxLen == 2
\* Largest obstacle set drawn as an input of such a call.
MaxObstacles == 1
\* The grid of the calls made on a mode alone.
ModeW == 2
ModeH == 1
\* Time limit of the timed mode objects drawn as inputs.
UnitTimeLimit == 2
\* Largest step of the clock, forward or back, between two readings.
MaxElapsed == 3
\* The grid of a game session is GridW x GridH.
GridW == 8
SmallW == 4
GridH == 1
\* A run of the game is followed for MaxTicks ticks of a started session.
MaxTicks == 3
\* Between two ticks of a session the clock stands still, advances by
\* ClockStep or is set back by ClockStep.
ClockStep == 16
LiveClockStep == 30

(***************************************************************************)
(* Constants of the program.                                               *)
(***************************************************************************)
DIRECTION_RIGHT == <<1, 0>>
DIRECTION_LEFT == <<-1, 0>>
DIRECTION_UP == <<0, -1>>
DIRECTION_DOWN == <<0, 1>>
DEFAULT_SNAKE_LENGTH == 3
MAX_FOOD_SPAWN_ATTEMPTS == 100

Directions == {DIRECTION_RIGHT, DIRECTION_LEFT, DIRECTION_UP, DIRECTION_DOWN}

(***************************************************************************)
(* Point                                                                   *)
(***************************************************************************)
\* Point.__add__
PointAdd(p, d) == <<p[1] + d[1], p[2] + d[2]>>

\* Point.is_within_bounds
IsWithinBounds(p, width, height) ==
    /\ 0 <= p[1] /\ p[1] < width
    /\ 0 <= p[2] /\ p[2] < height

\* The cells of a grid: range(width) x range(height).
Cells(gs) == (0 .. gs[1] - 1) \X (0 .. gs[2] - 1)

\* The cells of a grid and the ring of cells around it.
ExtCells(gs) == (-1 .. gs[1]) \X (-1 .. gs[2])

(***************************************************************************)
(* Snake                                                                   *)
(***************************************************************************)
\* A body laid out ahead of the head, along the positive x axis.
SnakeInitBodyAhead(start_position, initial_length) ==
    [i \in 1 .. initial_length |-> <<start_position[1] + (i - 1), start_position[2]>>]

\* Snake.__init__: the body of a snake of initial_length >= 1 at start_position.
SnakeInitBody(start_position, initial_length) ==
    [i \in 1 .. initial_length |-> <<start_position[1] - (i - 1), start_position[2]>>]

\* Snake.__init__: the ValueError it raises for an initial_length below 1, or
\* the snake it leaves, heading right.
SnakeInit(start_position, initial_length) ==
    IF initial_length < 1
    THEN [raised |-> "ValueError", body |-> <<>>, direction |-> <<>>]
    ELSE [raised |-> "", body |-> SnakeInitBody(start_position, initial_length),
          direction |-> DIRECTION_RIGHT]

\* Snake.head
SnakeHead(b) == b[1]

\* self._body[1:]
Rest(b) == {b[i] : i \in 2 .. Len(b)}

\* A move that forgets to pop the tail.
MoveBodyNoPop(b, d, grow) == <<PointAdd(SnakeHead(b), d)>> \o b

\* A move that goes right whatever the direction set.
MoveBodyRight(b, d, grow) ==
    LET inserted == <<PointAdd(SnakeHead(b), DIRECTION_RIGHT)>> \o b
    IN  IF grow THEN inserted ELSE SubSeq(inserted, 1, Len(inserted) - 1)

\* Snake.move: the body after the move.
MoveBody(b, d, grow) ==
    LET new_head == PointAdd(SnakeHead(b), d)
        inserted == <<new_head>> \o b
    IN  IF grow THEN inserted ELSE SubSeq(inserted, 1, Len(inserted) - 1)

\* An opposite test that rejects every direction on the axis of travel.
IsOppositeSameAxis(d, new_direction) ==
    \/ (d[1] # 0 /\ new_direction[1] # 0)
    \/ (d[2] # 0 /\ new_direction[2] # 0)

\* Snake._is_opposite_direction
IsOppositeDirection(d, new_direction) ==
    \/ (d[1] = -new_direction[1] /\ d[1] # 0)
    \/ (d[2] = -new_direction[2] /\ d[2] # 0)

\* A self-collision test that does not leave the head out of the body.
HasSelfCollisionWithHead(b) == SnakeHead(b) \in {b[i] : i \in 1 .. Len(b)}

\* A collision test that does not leave the head out of the body.
CheckCollisionWithHead(b, point) == point \in {b[i] : i \in 1 .. Len(b)}

\* Snake.has_self_collision
HasSelfCollision(b) == SnakeHead(b) \in Rest(b)

\* Snake.check_collision
CheckCollision(b, point) == point \in Rest(b)

(***************************************************************************)
(* Food                                                                    *)
(***************************************************************************)
\* {(point.x, point.y) for point in snake_body}
SnakePositions(snake_body) == {snake_body[i] : i \in 1 .. Len(snake_body)}

\* The place of a cell in a scan that goes through the grid row by row.
ScanIndexByRows(gs, p) == p[2] * gs[1] + p[1]

\* The place of a cell in the scan "for x in range(width): for y in range(height)".
ScanIndex(gs, p) == p[1] * gs[2] + p[2]

\* The first cell of a non-empty set of grid cells in scan order.
FirstInScan(gs, S) == CHOOSE p \in S : \A q \in S : ScanIndex(gs, p) <= ScanIndex(gs, q)

\* A spawn result: the position of the new Food and the path that produced it.
Spawned(p, path) == [pos |-> p, path |-> path]

\* A fallback that answers a snake covering the grid with a position off it.
FindFallbackPositionOffGrid(gs, snake_body, obstacle_set, path) ==
    LET off_snake == {p \in Cells(gs) : p \notin SnakePositions(snake_body)}
    IN  IF off_snake # {} THEN {Spawned(FirstInScan(gs, off_snake), path)}
        ELSE {Spawned(<<-1, -1>>, path)}

\* Food._find_fallback_position: the first cell in scan order that is not on the
\* snake, (0, 0) when there is none.  The obstacles are not an argument of the
\* code's function; the parameter is carried here and not read.
FindFallbackPosition(gs, snake_body, obstacle_set, path) ==
    LET off_snake == {p \in Cells(gs) : p \notin SnakePositions(snake_body)}
    IN  IF off_snake # {} THEN {Spawned(FirstInScan(gs, off_snake), path)}
        ELSE {Spawned(<<0, 0>>, path)}

\* The loop of Food._random_spawn over `attempts` draws: it returns the first
\* draw that is accepted, which can be any accepted cell when there is a draw
\* at all; it runs out, and the fallback follows, when every draw is rejected,
\* which can happen when some cell is rejected (or there is no draw).
RandomDraws(accepted, rejected, fallback, attempts) ==
    (IF attempts >= 1 THEN {Spawned(p, "sparse") : p \in accepted} ELSE {})
        \cup (IF rejected # {} \/ attempts = 0 THEN fallback ELSE {})

\* Food._random_spawn: a draw is any cell of the grid, accepted when it is
\* neither on the snake nor on an obstacle.
RandomSpawn(gs, snake_body, obstacle_set) ==
    LET accepted == {p \in Cells(gs) :
                        p \notin SnakePositions(snake_body) /\ p \notin obstacle_set}
    IN  RandomDraws(accepted, Cells(gs) \ accepted,
                    FindFallbackPosition(gs, snake_body, obstacle_set, "sparse_fallback"),
                    MAX_FOOD_SPAWN_ATTEMPTS)

\* Food._systematic_spawn
SystematicSpawn(gs, snake_body, obstacle_set) ==
    LET available_positions ==
            {p \in Cells(gs) : p \notin SnakePositions(snake_body) /\ p \notin obstacle_set}
    IN  IF available_positions # {}
        THEN {Spawned(p, "dense") : p \in available_positions}
        ELSE FindFallbackPosition(gs, snake_body, obstacle_set, "dense_fallback")

\* A spawn that puts the food under the snake's head.
SpawnUnderHead(gs, snake_body, obstacle_set) == {Spawned(snake_body[1], "dense")}

\* A spawn that keeps off the obstacles and pays no attention to the snake.
SpawnOffObstacles(gs, snake_body, obstacle_set) ==
    {Spawned(p, "dense") : p \in Cells(gs) \ obstacle_set}

\* Food.spawn: every result the call can return.  occupied < total * 0.5 is
\* 2 * occupied < total.
Spawn(gs, snake_body, obstacle_set) ==
    LET total_positions == gs[1] * gs[2]
        occupied_positions == Len(snake_body) + Cardinality(obstacle_set)
    IN  IF occupied_positions >= total_positions
        THEN FindFallbackPosition(gs, snake_body, obstacle_set, "degenerate")
        ELSE IF 2 * occupied_positions < total_positions
             THEN RandomSpawn(gs, snake_body, obstacle_set)
             ELSE SystematicSpawn(gs, snake_body, obstacle_set)

(***************************************************************************)
(* Double-precision numbers.  ChallengeMode._speed_multiplier is a Python  *)
(* float.  A positive double is the record [hi, lo, e]: its 53-bit         *)
(* mantissa is hi * 2^26 + lo (2^26 <= hi < 2^27, 0 <= lo < 2^26) and e is *)
(* the exponent of the mantissa's least significant bit, so the value is   *)
(* (hi * 2^26 + lo) * 2^e.  The arithmetic works on the mantissa's bits,   *)
(* least significant first.                                                *)
(***************************************************************************)
Zeros(k) == [i \in 1 .. k |-> 0]

\* The value of a bit string of fewer than 31 bits.
RECURSIVE BitsValue(_)
BitsValue(bits) == IF bits = <<>> THEN 0 ELSE bits[1] + 2 * BitsValue(Tail(bits))

\* The `width` low bits of n >= 0.
RECURSIVE BitsOf(_, _)
BitsOf(n, width) == IF width = 0 THEN <<>> ELSE <<n % 2>> \o BitsOf(n \div 2, width - 1)

\* The 53 mantissa bits of a double, and the double of 53 mantissa bits.
Mantissa(a) == BitsOf(a.lo, 26) \o BitsOf(a.hi, 27)
Double(bits, e) ==
    [hi |-> BitsValue(SubSeq(bits, 27, 53)), lo |-> BitsValue(SubSeq(bits, 1, 26)), e |-> e]

\* The sum of two bit strings and a carry.
RECURSIVE BitsAdd(_, _, _)
BitsAdd(a, b, carry) ==
    IF a = <<>> /\ b = <<>>
    THEN (IF carry = 1 THEN <<1>> ELSE <<>>)
    ELSE LET x == IF a = <<>> THEN 0 ELSE a[1]
             y == IF b = <<>> THEN 0 ELSE b[1]
             t == x + y + carry
         IN  <<t % 2>> \o BitsAdd(IF a = <<>> THEN a ELSE Tail(a),
                                  IF b = <<>> THEN b ELSE Tail(b), t \div 2)

\* A bit string without its leading zeros (the zeros at its end).
RECURSIVE StripZeros(_)
StripZeros(bits) ==
    IF bits # <<>> /\ bits[Len(bits)] = 0
    THEN StripZeros(SubSeq(bits, 1, Len(bits) - 1))
    ELSE bits

\* The double nearest to bits * 2^e, ties to even (IEEE 754 round-to-nearest),
\* for a value that is not zero.
RoundToDouble(bits, e) ==
    LET s == StripZeros(bits)
        n == Len(s)
        k == n - 53
    IN  IF k <= 0
        THEN Double(Zeros(-k) \o s, e + k)
        ELSE LET kept == SubSeq(s, k + 1, n)
                 guard == s[k]
                 sticky == \E i \in 1 .. k - 1 : s[i] = 1
                 round_up == guard = 1 /\ (sticky \/ kept[1] = 1)
                 up == BitsAdd(kept, <<1>>, 0)
             IN  IF ~round_up THEN Double(kept, e + k)
                 ELSE IF Len(up) = 54 THEN Double(Tail(up), e + k + 1)
                 ELSE Double(up, e + k)

\* a + b in double precision.
FloatAdd(a, b) ==
    LET e == IF a.e < b.e THEN a.e ELSE b.e
    IN  RoundToDouble(BitsAdd(Zeros(a.e - e) \o Mantissa(a),
                              Zeros(b.e - e) \o Mantissa(b), 0), e)

\* The exact bit string of n * bits, n >= 0.
RECURSIVE BitsTimes(_, _)
BitsTimes(bits, n) == IF n = 0 THEN <<>> ELSE BitsAdd(bits, BitsTimes(bits, n - 1), 0)

\* a * n in double precision, for an integer n >= 1 (n converts to a double exactly).
FloatTimesInt(a, n) == RoundToDouble(BitsTimes(Mantissa(a), n), a.e)

\* int(x) for a double 1 <= x < 2^30: its integer part.
FloatToInt(a) ==
    BitsValue(IF a.e >= 0 THEN Zeros(a.e) \o Mantissa(a) ELSE SubSeq(Mantissa(a), 1 - a.e, 53))

\* The double 1.0 = 2^52 * 2^-52.
FloatOne == [hi |-> 67108864, lo |-> 0, e |-> -52]

(***************************************************************************)
(* Game modes                                                              *)
(***************************************************************************)
DEFAULT_TIME_LIMIT == 30
\* 0.15 as a double: 0x1.3333333333333p-3 = 0x13333333333333 * 2^-55.
CHALLENGE_SPEED_INCREMENT == [hi |-> 80530636, lo |-> 53687091, e |-> -55]
OBSTACLE_FREQUENCY == 3

\* The messages update returns, as sequences of words; None is the empty one.
NoMessage == <<>>
Message(text) == <<text>>

\* `text in message` of Game.update.
InMessage(text, message) == \E i \in 1 .. Len(message) : message[i] = text

\* The state a mode object holds besides its grid and its game_over flag.
ModeState == [score |-> score,
              time_limit |-> time_limit, time_remaining |-> time_remaining,
              last_update |-> last_update, bonus_points |-> bonus_points,
              speed_multiplier |-> speed_multiplier, obstacles |-> obstacles,
              foods_eaten |-> foods_eaten]

\* GameMode.__init__, TimedMode.__init__ and ChallengeMode.__init__: the state
\* of a fresh mode object.  A mode of another class has no timer and no
\* obstacles; its fields hold the values the fresh object of that class holds.
FreshMode(limit) ==
    [score |-> 0,
     time_limit |-> limit, time_remaining |-> limit,
     last_update |-> <<>>, bonus_points |-> 0,
     speed_multiplier |-> FloatOne, obstacles |-> {},
     foods_eaten |-> 0]

\* The outcome of one update: the snake's body, the mode's state, the result.
Outcome(b, m, continue_game, message) ==
    [body |-> b, m |-> m, ret |-> <<continue_game, message>>]

\* A wraparound that clamps the head to the nearest edge.
WrapAroundClamp(gs, b) ==
    LET clamp(v, n) == IF v < 0 THEN 0 ELSE IF v >= n THEN n - 1 ELSE v
    IN  [b EXCEPT ![1] = <<clamp(b[1][1], gs[1]), clamp(b[1][2], gs[2])>>]

\* GameMode._wrap_around_movement; Python's % with a positive modulus is
\* never negative, as TLA+'s.
WrapAroundMovement(gs, b) ==
    [b EXCEPT ![1] = <<b[1][1] % gs[1], b[1][2] % gs[2]>>]

\* A score that counts every amount twice.
IncrementScoreTwice(m, amount) == [m EXCEPT !.score = @ + 2 * amount]

\* GameMode._increment_score
IncrementScore(m, amount) == [m EXCEPT !.score = @ + amount]

\* A classic update that looks at the food before the self-collision.
ClassicUpdateFoodFirst(gs, b, f, m) ==
    LET wrapped == WrapAroundMovement(gs, b)
    IN  IF SnakeHead(wrapped) = f
        THEN {Outcome(wrapped, IncrementScore(m, 1), TRUE, Message("Food eaten!"))}
        ELSE IF HasSelfCollision(wrapped)
        THEN {Outcome(wrapped, m, FALSE, Message("Self collision!"))}
        ELSE {Outcome(wrapped, m, TRUE, NoMessage)}

\* A classic update that compares the food with the head it was given, not
\* with the wrapped head.
ClassicUpdateFoodUnwrapped(gs, b, f, m) ==
    LET wrapped == WrapAroundMovement(gs, b)
    IN  IF HasSelfCollision(wrapped)
        THEN {Outcome(wrapped, m, FALSE, Message("Self collision!"))}
        ELSE IF SnakeHead(b) = f
        THEN {Outcome(wrapped, IncrementScore(m, 1), TRUE, Message("Food eaten!"))}
        ELSE {Outcome(wrapped, m, TRUE, NoMessage)}

\* ClassicMode.update
ClassicUpdate(gs, b, f, m) ==
    LET wrapped == WrapAroundMovement(gs, b)
    IN  IF HasSelfCollision(wrapped)
        THEN {Outcome(wrapped, m, FALSE, Message("Self collision!"))}
        ELSE IF SnakeHead(wrapped) = f
        THEN {Outcome(wrapped, IncrementScore(m, 1), TRUE, Message("Food eaten!"))}
        ELSE {Outcome(wrapped, m, TRUE, NoMessage)}

\* A timer that does not stop at zero.
UpdateTimerUnclamped(m, current_time) ==
    IF m.last_update = <<>>
    THEN [m EXCEPT !.last_update = <<current_time>>]
    ELSE [m EXCEPT !.time_remaining = @ - (current_time - m.last_update[1]),
                   !.last_update = <<current_time>>]

\* A timer that gains the time that passes.
UpdateTimerGaining(m, current_time) ==
    IF m.last_update = <<>>
    THEN [m EXCEPT !.last_update = <<current_time>>]
    ELSE [m EXCEPT !.time_remaining = @ + (current_time - m.last_update[1]),
                   !.last_update = <<current_time>>]

\* TimedMode._update_timer, with current_time the reading of time.time().
\* _last_update is <<>> for None and <<t>> for the reading t.
UpdateTimer(m, current_time) ==
    IF m.last_update = <<>>
    THEN [m EXCEPT !.last_update = <<current_time>>]
    ELSE LET elapsed == current_time - m.last_update[1]
             left == m.time_remaining - elapsed
         IN  [m EXCEPT !.time_remaining = IF left > 0 THEN left ELSE 0,
                       !.last_update = <<current_time>>]

\* TimedMode._calculate_time_bonus: int((remaining / limit) * 10).  For the
\* whole-number readings of the model the quotient's floor is exact.
CalculateTimeBonus(m) == (m.time_remaining * 10) \div m.time_limit

\* A timed update that wraps the head before it looks at the timer.
TimedUpdateWrapsFirst(gs, b, f, m, current_time) ==
    LET timed == UpdateTimer(m, current_time)
        wrapped == WrapAroundMovement(gs, b)
        time_bonus == (timed.time_remaining * 10) \div timed.time_limit
        total_points == 1 + time_bonus
    IN  IF timed.time_remaining <= 0
        THEN {Outcome(wrapped, timed, FALSE, Message("Time's up!"))}
        ELSE IF HasSelfCollision(wrapped)
        THEN {Outcome(wrapped, timed, FALSE, Message("Self collision!"))}
        ELSE IF SnakeHead(wrapped) = f
        THEN {Outcome(wrapped,
                      [IncrementScore(timed, total_points)
                          EXCEPT !.bonus_points = @ + time_bonus],
                      TRUE,
                      <<"Food eaten!", " +", ToString(total_points), " points!">>)}
        ELSE {Outcome(wrapped, timed, TRUE, NoMessage)}

\* A timed update that scores the time bonus and keeps no account of it.
TimedUpdateBonusUncounted(gs, b, f, m, current_time) ==
    LET timed == UpdateTimer(m, current_time)
        wrapped == WrapAroundMovement(gs, b)
        total_points == 1 + CalculateTimeBonus(timed)
    IN  IF timed.time_remaining <= 0
        THEN {Outcome(b, timed, FALSE, Message("Time's up!"))}
        ELSE IF HasSelfCollision(wrapped)
        THEN {Outcome(wrapped, timed, FALSE, Message("Self collision!"))}
        ELSE IF SnakeHead(wrapped) = f
        THEN {Outcome(wrapped, IncrementScore(timed, total_points), TRUE,
                      <<"Food eaten!", " +", ToString(total_points), " points!">>)}
        ELSE {Outcome(wrapped, timed, TRUE, NoMessage)}

\* TimedMode.update
TimedUpdate(gs, b, f, m, current_time) ==
    LET timed == UpdateTimer(m, current_time)
        wrapped == WrapAroundMovement(gs, b)
        time_bonus == CalculateTimeBonus(timed)
        total_points == 1 + time_bonus
    IN  IF timed.time_remaining <= 0
        THEN {Outcome(b, timed, FALSE, Message("Time's up!"))}
        ELSE IF HasSelfCollision(wrapped)
        THEN {Outcome(wrapped, timed, FALSE, Message("Self collision!"))}
        ELSE IF SnakeHead(wrapped) = f
        THEN {Outcome(wrapped,
                      [IncrementScore(timed, total_points)
                          EXCEPT !.bonus_points = @ + time_bonus],
                      TRUE,
                      <<"Food eaten!", " +", ToString(total_points), " points!">>)}
        ELSE {Outcome(wrapped, timed, TRUE, NoMessage)}

\* ChallengeMode._is_wall_collision
IsWallCollision(gs, b) ==
    LET head == SnakeHead(b)
    IN  head[1] < 0 \/ head[1] >= gs[1] \/ head[2] < 0 \/ head[2] >= gs[2]

\* ChallengeMode._is_obstacle_collision
IsObstacleCollision(b, m) == SnakeHead(b) \in m.obstacles

\* A placement that, with no free cell, puts the obstacle past the last column.
AddObstacleBeyondGrid(gs, m, snake_body) ==
    LET available_positions ==
            {pos \in Cells(gs) :
                pos \notin SnakePositions(snake_body) /\ pos \notin m.obstacles}
    IN  IF available_positions # {}
        THEN {[m EXCEPT !.obstacles = @ \cup {obstacle_pos}] :
                 obstacle_pos \in available_positions}
        ELSE {[m EXCEPT !.obstacles = @ \cup {<<gs[1], 0>>}]}

\* An obstacle placed on any cell that holds no obstacle yet, the snake's
\* cells included.
AddObstacleOnSnake(gs, m, snake_body) ==
    LET available_positions == {pos \in Cells(gs) : pos \notin m.obstacles}
    IN  IF available_positions # {}
        THEN {[m EXCEPT !.obstacles = @ \cup {obstacle_pos}] :
                 obstacle_pos \in available_positions}
        ELSE {m}

\* ChallengeMode._add_obstacle: every state the call can leave.
AddObstacle(gs, m, snake_body) ==
    LET available_positions ==
            {pos \in Cells(gs) :
                pos \notin SnakePositions(snake_body) /\ pos \notin m.obstacles}
    IN  IF available_positions # {}
        THEN {[m EXCEPT !.obstacles = @ \cup {obstacle_pos}] :
                 obstacle_pos \in available_positions}
        ELSE {m}

\* A rise in difficulty that raises the speed with each new obstacle only.
IncreaseDifficultyWithObstacle(gs, m, snake_body) ==
    LET harder == [m EXCEPT !.foods_eaten = @ + 1]
    IN  IF harder.foods_eaten % OBSTACLE_FREQUENCY = 0
        THEN AddObstacle(gs, [harder EXCEPT !.speed_multiplier =
                                                FloatAdd(@, CHALLENGE_SPEED_INCREMENT)],
                         snake_body)
        ELSE {harder}

\* ChallengeMode._increase_difficulty
IncreaseDifficulty(gs, m, snake_body) ==
    LET harder == [m EXCEPT !.foods_eaten = @ + 1,
                            !.speed_multiplier =
                                FloatAdd(@, CHALLENGE_SPEED_INCREMENT)]
    IN  IF harder.foods_eaten % OBSTACLE_FREQUENCY = 0
        THEN AddObstacle(gs, harder, snake_body)
        ELSE {harder}

\* A challenge update that looks at the food before the collisions.
ChallengeUpdateFoodFirst(gs, b, f, m) ==
    IF SnakeHead(b) = f
    THEN {Outcome(b, harder, TRUE, Message("Food eaten!")) :
             harder \in IncreaseDifficulty(gs, IncrementScore(m, 1), b)}
    ELSE IF IsWallCollision(gs, b)
    THEN {Outcome(b, m, FALSE, Message("Wall collision!"))}
    ELSE IF HasSelfCollision(b)
    THEN {Outcome(b, m, FALSE, Message("Self collision!"))}
    ELSE IF IsObstacleCollision(b, m)
    THEN {Outcome(b, m, FALSE, Message("Obstacle collision!"))}
    ELSE {Outcome(b, m, TRUE, NoMessage)}

\* ChallengeMode.update
ChallengeUpdate(gs, b, f, m) ==
    IF IsWallCollision(gs, b)
    THEN {Outcome(b, m, FALSE, Message("Wall collision!"))}
    ELSE IF HasSelfCollision(b)
    THEN {Outcome(b, m, FALSE, Message("Self collision!"))}
    ELSE IF IsObstacleCollision(b, m)
    THEN {Outcome(b, m, FALSE, Message("Obstacle collision!"))}
    ELSE IF SnakeHead(b) = f
    THEN {Outcome(b, harder, TRUE, Message("Food eaten!")) :
             harder \in IncreaseDifficulty(gs, IncrementScore(m, 1), b)}
    ELSE {Outcome(b, m, TRUE, NoMessage)}

\* mode.update(snake, food) of the mode object of class `kind`.
ModeUpdate(kind, gs, b, f, m, current_time) ==
    CASE kind = "Classic" -> ClassicUpdate(gs, b, f, m)
      [] kind = "Timed" -> TimedUpdate(gs, b, f, m, current_time)
      [] kind = "Challenge" -> ChallengeUpdate(gs, b, f, m)

(***************************************************************************)
(* Calls on the entities and on the modes alone, the way the unit tests    *)
(* make them: Init draws the inputs and an action is the one call made on  *)
(* them.                                                                   *)
(***************************************************************************)
\* The sequences of 1 .. n elements of S.
SeqsUpTo(S, n) == UNION {[1 .. k -> S] : k \in 1 .. n}

\* The subsets of S of at most n elements.
SubsetsUpTo(S, n) == {T \in SUBSET S : Cardinality(T) <= n}

\* What a call is compared with: the state it started from.
Snapshot == [body |-> body, direction |-> direction, food |-> food, m |-> ModeState,
             game_over |-> game_over, running |-> running,
             game_started |-> game_started, return_to_menu |-> return_to_menu]

\* The record of a call made on an entity or on a mode alone: its name, its
\* argument, its result and the state it started from; "init" stands for no
\* call yet.
Called(op, arg, ret) == [op |-> op, arg |-> arg, ret |-> ret, pre |-> Snapshot, n |-> 0]

\* The record of a step of a session: the handler, its argument (the key of a
\* KEYDOWN event), the result of the mode's update when the handler made it,
\* and the number of ticks the run has processed.
Handled(op, arg, ret, n) == [op |-> op, arg |-> arg, ret |-> ret, pre |-> <<>>, n |-> n]

\* The mode's state variables hold m.
SetMode(m) ==
    /\ score' = m.score
    /\ time_limit' = m.time_limit
    /\ time_remaining' = m.time_remaining
    /\ last_update' = m.last_update
    /\ bonus_points' = m.bonus_points
    /\ speed_multiplier' = m.speed_multiplier
    /\ obstacles' = m.obstacles
    /\ foods_eaten' = m.foods_eaten

\* The variables of a session that a call on an entity does not involve.
NoSession ==
    /\ mode = "Classic"
    /\ game_over = FALSE
    /\ running = TRUE
    /\ game_started = FALSE
    /\ return_to_menu = FALSE
    /\ pc = "loop"
    /\ now = 0

NoMode ==
    /\ score = 0
    /\ time_limit = DEFAULT_TIME_LIMIT
    /\ time_remaining = DEFAULT_TIME_LIMIT
    /\ last_update = <<>>
    /\ bonus_points = 0
    /\ speed_multiplier = FloatOne
    /\ obstacles = {}
    /\ foods_eaten = 0

\* A snake of any body and direction.
InitSnake ==
    /\ grid_size = <<UnitW, UnitH>>
    /\ body \in SeqsUpTo(Cells(grid_size), MaxLen)
    /\ direction \in Directions
    /\ food = <<0, 0>>
    /\ NoMode
    /\ NoSession
    /\ call = Called("init", <<>>, <<>>)

\* snake.move(grow)
SnakeMove ==
    \E grow \in BOOLEAN :
        /\ call.op = "init"
        /\ body' = MoveBody(body, direction, grow)
        /\ call' = Called("move", grow, <<>>)
        /\ UNCHANGED <<grid_size, direction, food, modeVars, gameVars, now>>

\* snake.change_direction(new_direction)
SnakeChangeDirection ==
    \E new_direction \in Directions :
        /\ call.op = "init"
        /\ IF IsOppositeDirection(direction, new_direction)
           THEN /\ direction' = direction
                /\ call' = Called("change_direction", new_direction, FALSE)
           ELSE /\ direction' = new_direction
                /\ call' = Called("change_direction", new_direction, TRUE)
        /\ UNCHANGED <<grid_size, body, food, modeVars, gameVars, now>>

\* snake.has_self_collision()
SnakeHasSelfCollision ==
    /\ call.op = "init"
    /\ call' = Called("has_self_collision", <<>>, HasSelfCollision(body))
    /\ UNCHANGED <<grid_size, snakeVars, food, modeVars, gameVars, now>>

\* snake.check_collision(point), for a point of the grid
SnakeCheckCollision ==
    \E point \in Cells(grid_size) :
        /\ call.op = "init"
        /\ call' = Called("check_collision", point, CheckCollision(body, point))
        /\ UNCHANGED <<grid_size, snakeVars, food, modeVars, gameVars, now>>

\* snake = Snake(start_position, initial_length), with initial_length from -1
\* to MaxLen or the default; the name snake keeps the snake it held when the
\* constructor raises.
SnakeCreate ==
    \E start_position \in Cells(grid_size) :
      \E initial_length \in (-1 .. MaxLen) \cup {DEFAULT_SNAKE_LENGTH} :
        LET made == SnakeInit(start_position, initial_length)
        IN  /\ call.op = "init"
            /\ call' = Called("Snake", <<start_position, initial_length>>, made.raised)
            /\ IF made.raised # ""
               THEN UNCHANGED snakeVars
               ELSE body' = made.body /\ direction' = made.direction
            /\ UNCHANGED <<grid_size, food, modeVars, gameVars, now>>

NextSnake ==
    \/ SnakeCreate
    \/ SnakeMove
    \/ SnakeChangeDirection
    \/ SnakeHasSelfCollision
    \/ SnakeCheckCollision

SpecSnake == InitSnake /\ [][NextSnake]_vars

(***************************************************************************)
(* Food.spawn alone.                                                       *)
(***************************************************************************)
\* The cells a drawn snake body lies on: the grid and the cell left of its
\* first row, where a segment of a snake longer than its start column lies.
BodyCells(gs) == Cells(gs) \cup {<<-1, 0>>}

\* Any grid up to UnitW x UnitH, any snake body, any set of obstacles.
InitFood ==
    /\ grid_size \in (1 .. UnitW) \X (1 .. UnitH)
    /\ body \in SeqsUpTo(BodyCells(grid_size), MaxLen)
    /\ direction = DIRECTION_RIGHT
    /\ food = <<0, 0>>
    /\ score = 0
    /\ time_limit = DEFAULT_TIME_LIMIT
    /\ time_remaining = DEFAULT_TIME_LIMIT
    /\ last_update = <<>>
    /\ bonus_points = 0
    /\ speed_multiplier = FloatOne
    /\ obstacles \in SubsetsUpTo(Cells(grid_size), MaxObstacles)
    /\ foods_eaten = 0
    /\ NoSession
    /\ call = Called("init", <<>>, <<>>)

\* food = Food.spawn(grid_size, snake_body, obstacles)
FoodSpawn ==
    \E spawned \in Spawn(grid_size, body, obstacles) :
        /\ call.op = "init"
        /\ food' = spawned.pos
        /\ call' = Called("spawn", <<>>, spawned)
        /\ UNCHANGED <<grid_size, snakeVars, modeVars, gameVars, now>>

NextFood == FoodSpawn

SpecFood == InitFood /\ [][NextFood]_vars

\* Food.spawn on crowded grids: any grid up to UnitW x UnitH, a straight snake
\* anywhere on it, any set of obstacles whatever its size.
InitCrowded ==
    /\ grid_size \in (1 .. UnitW) \X (1 .. UnitH)
    /\ body \in {SnakeInitBody(p, n) : p \in Cells(grid_size), n \in 1 .. MaxLen}
    /\ direction = DIRECTION_RIGHT
    /\ food = <<0, 0>>
    /\ score = 0
    /\ obstacles \in SUBSET Cells(grid_size)
    /\ time_limit = DEFAULT_TIME_LIMIT
    /\ time_remaining = DEFAULT_TIME_LIMIT
    /\ last_update = <<>>
    /\ bonus_points = 0
    /\ speed_multiplier = FloatOne
    /\ foods_eaten = 0
    /\ NoSession
    /\ call = Called("init", <<>>, <<>>)

SpecCrowded == InitCrowded /\ [][NextFood]_vars

(***************************************************************************)
(* mode.update alone.                                                      *)
(***************************************************************************)
\* The speed multiplier of a challenge mode that has raised its difficulty n
\* times: self.speed_multiplier += CHALLENGE_SPEED_INCREMENT, from 1.0.
RECURSIVE SpeedAfter(_)
SpeedAfter(n) ==
    IF n = 0 THEN FloatOne ELSE FloatAdd(SpeedAfter(n - 1), CHALLENGE_SPEED_INCREMENT)

\* A snake body whose head is on the grid or on the ring around it.
ModeBodies(gs) ==
    {<<head>> \o rest : head \in ExtCells(gs),
                        rest \in {<<>>} \cup SeqsUpTo(BodyCells(gs), MaxLen - 1)}

\* A mode object of any class in any state its fields can hold, a snake of
\* any body, a food on any cell of the grid or under the snake's head.  A
\* challenge mode has eaten any number of foods short of the one that brings
\* obstacle MaxObstacles + 1, and holds the obstacle each OBSTACLE_FREQUENCY
\* foods brought, on any cells.
InitMode ==
    /\ grid_size = <<ModeW, ModeH>>
    /\ mode \in {"Classic", "Timed", "Challenge"}
    /\ score = 0
    /\ IF mode = "Timed"
       THEN /\ time_limit = UnitTimeLimit
            /\ time_remaining \in 0 .. time_limit
            /\ last_update \in {<<>>, <<0>>}
       ELSE /\ time_limit = DEFAULT_TIME_LIMIT
            /\ time_remaining = DEFAULT_TIME_LIMIT
            /\ last_update = <<>>
    /\ bonus_points = 0
    /\ foods_eaten \in IF mode = "Challenge"
                       THEN 0 .. OBSTACLE_FREQUENCY * (MaxObstacles + 1) - 1
                       ELSE {0}
    /\ speed_multiplier = SpeedAfter(foods_eaten)
    /\ obstacles \in IF mode = "Challenge"
                     THEN {T \in SubsetsUpTo(Cells(grid_size), MaxObstacles) :
                              Cardinality(T) = foods_eaten \div OBSTACLE_FREQUENCY}
                     ELSE {{}}
    /\ body \in ModeBodies(grid_size)
    /\ direction = DIRECTION_RIGHT
    /\ food \in Cells(grid_size) \cup {SnakeHead(body)}
    /\ game_over = FALSE
    /\ running = TRUE
    /\ game_started = FALSE
    /\ return_to_menu = FALSE
    /\ pc = "loop"
    /\ now = 0
    /\ call = Called("init", <<>>, <<>>)

\* mode.update(snake, food).  A timed mode alone reads the clock, time.time():
\* the system clock, which advances and which can be set back between two
\* readings.  Readings are counted from the one at construction.
UpdateCall ==
    \E elapsed \in IF mode = "Timed" THEN (-MaxElapsed) .. MaxElapsed ELSE {0} :
        \E out \in ModeUpdate(mode, grid_size, body, food, ModeState, now + elapsed) :
            /\ call.op = "init"
            /\ now' = now + elapsed
            /\ body' = out.body
            /\ SetMode(out.m)
            /\ call' = Called("update", <<>>, out.ret)
            /\ UNCHANGED <<grid_size, direction, food, mode, game_over, gameVars>>

NextMode == UpdateCall

SpecMode == InitMode /\ [][NextMode]_vars

(***************************************************************************)
(* The Game session: reset_game, the events of handle_input, and the tick  *)
(* of Game.run (update, then the test of the loop).                        *)
(***************************************************************************)
ModeClasses == {"Classic", "Timed", "Challenge"}

\* Pygame's key codes that Game reads, and one it does not.
Keys == {"K_r", "K_m", "K_q", "K_SPACE", "K_UP", "K_DOWN", "K_LEFT", "K_RIGHT", "K_a"}

\* direction_map of Game._handle_direction_input
DirectionMap(key) ==
    CASE key = "K_UP" -> <<0, -1>>
      [] key = "K_DOWN" -> <<0, 1>>
      [] key = "K_LEFT" -> <<-1, 0>>
      [] key = "K_RIGHT" -> <<1, 0>>

DirectionKeys == {"K_UP", "K_DOWN", "K_LEFT", "K_RIGHT"}

\* A start in the centre of the grid.
StartPosCentre(gs) == <<gs[1] \div 2, gs[2] \div 2>>

\* start_pos of Game.reset_game
StartPos(gs) == <<gs[1] \div 4, gs[2] \div 2>>

\* Game.reset_game(mode_class): a fresh snake, a food spawned against it, a
\* fresh mode of the class (a TimedMode with the default time limit).
ResetGame(mode_class) ==
    LET snake_body == SnakeInitBody(StartPos(grid_size), DEFAULT_SNAKE_LENGTH)
    IN  \E spawned \in Spawn(grid_size, snake_body, {}) :
            /\ body' = snake_body
            /\ direction' = DIRECTION_RIGHT
            /\ food' = spawned.pos
            /\ mode' = mode_class
            /\ SetMode(FreshMode(DEFAULT_TIME_LIMIT))
            /\ game_over' = FALSE
            /\ running' = TRUE
            /\ game_started' = FALSE
            /\ return_to_menu' = FALSE

\* main: game = Game(); game.reset_game(selected_mode); game.run().  The
\* session as run() finds it, for a Game of grid size gs and a mode selected
\* among mode_classes.
SelectedOn(gs, mode_classes) ==
    /\ grid_size = gs
    /\ \E selected_mode \in mode_classes :
        \E spawned \in Spawn(grid_size,
                             SnakeInitBody(StartPos(grid_size), DEFAULT_SNAKE_LENGTH), {}) :
            /\ body = SnakeInitBody(StartPos(grid_size), DEFAULT_SNAKE_LENGTH)
            /\ direction = DIRECTION_RIGHT
            /\ food = spawned.pos
            /\ mode = selected_mode
            /\ score = 0
            /\ time_limit = DEFAULT_TIME_LIMIT
            /\ time_remaining = DEFAULT_TIME_LIMIT
            /\ last_update = <<>>
            /\ bonus_points = 0
            /\ speed_multiplier = FloatOne
            /\ obstacles = {}
            /\ foods_eaten = 0
            /\ game_over = FALSE
            /\ running = TRUE
            /\ game_started = FALSE
            /\ return_to_menu = FALSE
    /\ pc = "loop"
    /\ now = 0
    /\ call = Handled("reset_game", mode, <<>>, 0)

\* The session on the GridW x GridH grid.
Selected(mode_classes) == SelectedOn(<<GridW, GridH>>, mode_classes)

Init == Selected(ModeClasses)

\* A key handler whose direction keys act whatever the play state.
KeyDownUngated ==
    \E key \in Keys :
        /\ pc = "loop"
        /\ call' = Handled("keydown", key, <<>>, call.n)
        /\ UNCHANGED <<grid_size, now, pc>>
        /\ IF key = "K_r" /\ game_over
           THEN ResetGame(mode)
           ELSE IF key = "K_m" /\ game_over
           THEN /\ return_to_menu' = TRUE
                /\ running' = FALSE
                /\ UNCHANGED <<snakeVars, food, modeVars, game_started>>
           ELSE IF key = "K_q" /\ game_over
           THEN /\ running' = FALSE
                /\ UNCHANGED <<snakeVars, food, modeVars, game_started, return_to_menu>>
           ELSE IF key = "K_SPACE" /\ ~game_started
           THEN /\ game_started' = TRUE
                /\ UNCHANGED <<snakeVars, food, modeVars, running, return_to_menu>>
           ELSE IF key \in DirectionKeys
                   /\ ~IsOppositeDirection(direction, DirectionMap(key))
           THEN /\ direction' = DirectionMap(key)
                /\ UNCHANGED <<body, food, modeVars, running, game_started, return_to_menu>>
           ELSE UNCHANGED <<snakeVars, food, modeVars, running, game_started, return_to_menu>>

\* A key handler whose keys R, M and Q act whether the game is over or not.
KeyDownAnyTime ==
    \E key \in Keys :
        /\ pc = "loop"
        /\ call' = Handled("keydown", key, <<>>, call.n)
        /\ UNCHANGED <<grid_size, now, pc>>
        /\ IF key = "K_r"
           THEN ResetGame(mode)
           ELSE IF key = "K_m"
           THEN /\ return_to_menu' = TRUE
                /\ running' = FALSE
                /\ UNCHANGED <<snakeVars, food, modeVars, game_started>>
           ELSE IF key = "K_q"
           THEN /\ running' = FALSE
                /\ UNCHANGED <<snakeVars, food, modeVars, game_started, return_to_menu>>
           ELSE IF key = "K_SPACE" /\ ~game_started
           THEN /\ game_started' = TRUE
                /\ UNCHANGED <<snakeVars, food, modeVars, running, return_to_menu>>
           ELSE IF game_started /\ ~game_over /\ key \in DirectionKeys
                   /\ ~IsOppositeDirection(direction, DirectionMap(key))
           THEN /\ direction' = DirectionMap(key)
                /\ UNCHANGED <<body, food, modeVars, running, game_started, return_to_menu>>
           ELSE UNCHANGED <<snakeVars, food, modeVars, running, game_started, return_to_menu>>

\* Game._handle_keydown_event(key), for one KEYDOWN event of handle_input.
KeyDown ==
    \E key \in Keys :
        /\ pc = "loop"
        /\ call' = Handled("keydown", key, <<>>, call.n)
        /\ UNCHANGED <<grid_size, now, pc>>
        /\ IF key = "K_r" /\ game_over
           THEN ResetGame(mode)
           ELSE IF key = "K_m" /\ game_over
           THEN /\ return_to_menu' = TRUE
                /\ running' = FALSE
                /\ UNCHANGED <<snakeVars, food, modeVars, game_started>>
           ELSE IF key = "K_q" /\ game_over
           THEN /\ running' = FALSE
                /\ UNCHANGED <<snakeVars, food, modeVars, game_started, return_to_menu>>
           ELSE IF key = "K_SPACE" /\ ~game_started
           THEN /\ game_started' = TRUE
                /\ UNCHANGED <<snakeVars, food, modeVars, running, return_to_menu>>
           ELSE IF game_started /\ ~game_over /\ key \in DirectionKeys
                   /\ ~IsOppositeDirection(direction, DirectionMap(key))
           THEN /\ direction' = DirectionMap(key)
                /\ UNCHANGED <<body, food, modeVars, running, game_started, return_to_menu>>
           ELSE UNCHANGED <<snakeVars, food, modeVars, running, game_started, return_to_menu>>

\* The pygame.QUIT event of handle_input.
QuitEvent ==
    /\ pc = "loop"
    /\ running' = FALSE
    /\ call' = Handled("quit", <<>>, <<>>, call.n)
    /\ UNCHANGED <<grid_size, snakeVars, food, modeVars, game_started, return_to_menu, now, pc>>

\* An update that goes on moving the snake after the game is over.
TickWhenOver ==
    /\ pc = "loop"
    /\ pc' = IF running THEN "loop" ELSE "returned"
    /\ UNCHANGED <<grid_size, direction, mode, running, game_started, return_to_menu>>
    /\ IF ~game_started
       THEN /\ call' = Handled("update", <<>>, <<>>, call.n)
            /\ UNCHANGED <<body, food, score, game_over, timedVars, challengeVars, now>>
       ELSE \E elapsed \in IF mode = "Timed" THEN {-ClockStep, 0, ClockStep} ELSE {0} :
              \E out \in ModeUpdate(mode, grid_size, MoveBody(body, direction, FALSE),
                                    food, ModeState, now + elapsed) :
                /\ call.n < MaxTicks
                /\ now' = now + elapsed
                /\ SetMode(out.m)
                /\ game_over' = ~out.ret[1]
                /\ call' = Handled("update", <<>>, out.ret, call.n + 1)
                /\ IF InMessage("Food eaten!", out.ret[2])
                   THEN \E spawned \in
                            Spawn(grid_size, MoveBody(out.body, direction, TRUE),
                                  IF mode = "Challenge" THEN out.m.obstacles ELSE {}) :
                            /\ body' = MoveBody(out.body, direction, TRUE)
                            /\ food' = spawned.pos
                   ELSE /\ body' = out.body
                        /\ food' = food

\* Game.update, and the test `while self._running` that follows it in Game.run.
\* The clock, time.time(), is read by a timed mode's update alone; it is the
\* system clock, which advances and which can be set back.
Tick ==
    /\ pc = "loop"
    /\ pc' = IF running THEN "loop" ELSE "returned"
    /\ UNCHANGED <<grid_size, direction, mode, running, game_started, return_to_menu>>
    /\ IF ~game_started \/ game_over
       THEN /\ call' = Handled("update", <<>>, <<>>, call.n)
            /\ UNCHANGED <<body, food, score, game_over, timedVars, challengeVars, now>>
       ELSE \E elapsed \in IF mode = "Timed" THEN {-ClockStep, 0, ClockStep} ELSE {0} :
              \E out \in ModeUpdate(mode, grid_size, MoveBody(body, direction, FALSE),
                                    food, ModeState, now + elapsed) :
                /\ call.n < MaxTicks
                /\ now' = now + elapsed
                /\ SetMode(out.m)
                /\ game_over' = ~out.ret[1]
                /\ call' = Handled("update", <<>>, out.ret, call.n + 1)
                /\ IF InMessage("Food eaten!", out.ret[2])
                   THEN \E spawned \in
                            Spawn(grid_size, MoveBody(out.body, direction, TRUE),
                                  IF mode = "Challenge" THEN out.m.obstacles ELSE {}) :
                            /\ body' = MoveBody(out.body, direction, TRUE)
                            /\ food' = spawned.pos
                   ELSE /\ body' = out.body
                        /\ food' = food

\* Game._calculate_fps(base_fps) in the current state: int(base_fps * speed)
\* for a ChallengeMode, base_fps for the other modes.
CalculateFps(base_fps) ==
    IF mode = "Challenge"
    THEN FloatToInt(FloatTimesInt(speed_multiplier, base_fps))
    ELSE base_fps

Next == KeyDown \/ QuitEvent \/ Tick

Spec == Init /\ [][Next]_vars

\* The session of a game started in Timed mode, and of one started in
\* Challenge mode.
InitTimed == Selected({"Timed"})

SpecTimed == InitTimed /\ [][Next]_vars

\* Game.update under a clock that advances between two ticks, by LiveClockStep
\* or by twice as much.
TickForward ==
    /\ pc = "loop"
    /\ pc' = IF running THEN "loop" ELSE "returned"
    /\ UNCHANGED <<grid_size, direction, mode, running, game_started, return_to_menu>>
    /\ IF ~game_started \/ game_over
       THEN /\ call' = Handled("update", <<>>, <<>>, call.n)
            /\ UNCHANGED <<body, food, score, game_over, timedVars, challengeVars, now>>
       ELSE \E elapsed \in {LiveClockStep, 2 * LiveClockStep} :
              \E out \in ModeUpdate(mode, grid_size, MoveBody(body, direction, FALSE),
                                    food, ModeState, now + elapsed) :
                /\ call.n < MaxTicks
                /\ now' = now + elapsed
                /\ SetMode(out.m)
                /\ game_over' = ~out.ret[1]
                /\ call' = Handled("update", <<>>, out.ret, call.n + 1)
                /\ IF InMessage("Food eaten!", out.ret[2])
                   THEN \E spawned \in
                            Spawn(grid_size, MoveBody(out.body, direction, TRUE),
                                  IF mode = "Challenge" THEN out.m.obstacles ELSE {}) :
                            /\ body' = MoveBody(out.body, direction, TRUE)
                            /\ food' = spawned.pos
                   ELSE /\ body' = out.body
                        /\ food' = food

\* The session of a game started in Timed mode whose loop goes on: run() makes
\* an update on every turn of the loop, no QUIT event ends the loop, and the
\* clock advances between two ticks.
NextForward == KeyDown \/ TickForward

SpecTimedForward == InitTimed /\ [][NextForward]_vars /\ WF_vars(TickForward)

InitChallenge == Selected({"Challenge"})

SpecChallenge == InitChallenge /\ [][Next]_vars

\* The session of a Challenge game on a grid one column wider, on which the
\* third food of a run to the right can be eaten one cell away from the wall.
InitChallengeWide == SelectedOn(<<GridW + 1, GridH>>, {"Challenge"})

SpecChallengeWide == InitChallengeWide /\ [][Next]_vars

\* reset_game alone, called on a Game of any grid up to UnitW x UnitH in any
\* state of its session: any mode in play, fresh or used, over or not, a
\* straight snake anywhere, started or not.
InitReset ==
    /\ grid_size \in (1 .. UnitW) \X (1 .. UnitH)
    /\ mode \in ModeClasses
    /\ score \in {0, 1}
    /\ time_limit = DEFAULT_TIME_LIMIT
    /\ time_remaining \in IF mode = "Timed" THEN {0, DEFAULT_TIME_LIMIT}
                           ELSE {DEFAULT_TIME_LIMIT}
    /\ last_update = IF time_remaining = 0 THEN <<0>> ELSE <<>>
    /\ bonus_points = IF mode = "Timed" THEN score ELSE 0
    /\ foods_eaten \in IF mode = "Challenge" THEN {0, OBSTACLE_FREQUENCY} ELSE {0}
    /\ speed_multiplier = SpeedAfter(foods_eaten)
    /\ obstacles \in {T \in SubsetsUpTo(Cells(grid_size), 1) :
                          Cardinality(T) <= foods_eaten \div OBSTACLE_FREQUENCY}
    /\ body \in {SnakeInitBody(p, n) : p \in Cells(grid_size), n \in 1 .. MaxLen}
    /\ direction \in {DIRECTION_RIGHT, DIRECTION_UP}
    /\ food = <<0, 0>>
    /\ game_over \in BOOLEAN
    /\ game_started \in BOOLEAN
    /\ running = TRUE
    /\ return_to_menu = FALSE
    /\ pc = "loop"
    /\ now = 0
    /\ call = Called("init", <<>>, <<>>)

\* game.reset_game(mode_class)
ResetCall ==
    \E mode_class \in ModeClasses :
        /\ call.op = "init"
        /\ ResetGame(mode_class)
        /\ call' = Called("reset_game", mode_class, <<>>)
        /\ UNCHANGED <<grid_size, now, pc>>

NextReset == ResetCall

SpecReset == InitReset /\ [][NextReset]_vars

\* The session of a Game built on a grid that the snake can fill, SmallW x
\* GridH, or on the GridW x GridH grid.
InitGrids ==
    \/ SelectedOn(<<SmallW, GridH>>, ModeClasses)
    \/ SelectedOn(<<GridW, GridH>>, ModeClasses)

SpecGrids == InitGrids /\ [][Next]_vars

(***************************************************************************)
(* Properties.                                                             *)
(***************************************************************************)
\* The exact opposite of a direction.
Opposite(d) == <<-d[1], -d[2]>>

C2_Move ==
    call.op = "move" =>
        LET old == call.pre.body
        IN  /\ body[1] = PointAdd(old[1], direction)
            /\ IF call.arg
               THEN /\ Len(body) = Len(old) + 1
                    /\ body[Len(body)] = old[Len(old)]
               ELSE /\ Len(body) = Len(old)
                    /\ \A i \in 2 .. Len(body) : body[i] = old[i - 1]

\* C2 witness: a snake of several segments moved without growing.
C2_Witness ==
    /\ call.op = "move"
    /\ call.arg = FALSE
    /\ Len(body) >= 2
    /\ body[2] = call.pre.body[1]

\* occupied < total of Food.spawn for the inputs of the last call.
SpawnHasRoom ==
    Len(call.pre.body) + Cardinality(call.pre.m.obstacles) < grid_size[1] * grid_size[2]

\* C3: for every grid, snake body and obstacle set with
\* |snake| + |obstacles| < width * height, Food.spawn returns a cell that is
\* neither on the snake body nor in the obstacle set, on every path (random
\* draws, enumeration, and the fallback after the 100 draws are used up).
C3_SpawnOnFreeCell ==
    (call.op = "spawn" /\ SpawnHasRoom) =>
        /\ food \notin SnakePositions(body)
        /\ food \notin obstacles

\* The head cell (x mod W, y mod H) of a head cell (x, y).
WrappedCell(p) == <<p[1] % grid_size[1], p[2] % grid_size[2]>>

\* The last call was update, on a mode of this class.
Updated(kind) == call.op = "update" /\ mode = kind

\* An update has wrapped the head, returned continue = true unless the snake
\* collides with itself, and left the other segments alone.
HeadWrapped ==
    /\ Len(body) = Len(call.pre.body)
    /\ body[1] = WrappedCell(call.pre.body[1])
    /\ \A i \in 2 .. Len(body) : body[i] = call.pre.body[i]
    /\ (body[1] \notin {body[i] : i \in 2 .. Len(body)} => call.ret[1] = TRUE)

\* C4 as claimed: one Classic or Timed update replaces the head (x, y) by
\* (x mod W, y mod H), returns continue = true when no self-collision results,
\* and leaves every other body segment unchanged.
C4_AnyUpdateWraps ==
    (Updated("Classic") \/ Updated("Timed")) => HeadWrapped

\* C4 as amended: one Classic update, or one Timed update that leaves the
\* remaining time positive, replaces the head (x, y) by (x mod W, y mod H), so
\* that (-1, y) becomes (W-1, y) and (W, y) becomes (0, y), returns
\* continue = true when no self-collision results, and leaves every other body
\* segment unchanged.
C4_UpdateWraps ==
    (Updated("Classic") \/ (Updated("Timed") /\ time_remaining > 0)) => HeadWrapped

\* C4 witness: a head at x = -1 came back at x = W - 1 and the game goes on.
C4_Witness ==
    /\ call.op = "update"
    /\ mode \in {"Classic", "Timed"}
    /\ call.pre.body[1][1] = -1
    /\ body[1][1] = grid_size[1] - 1
    /\ Len(body) >= 2
    /\ call.ret[1] = TRUE

\* The mode's score, foods-eaten counter, speed and obstacles are the ones the
\* call started with.
ChallengeUnchanged ==
    /\ score = call.pre.m.score
    /\ foods_eaten = call.pre.m.foods_eaten
    /\ speed_multiplier = call.pre.m.speed_multiplier
    /\ obstacles = call.pre.m.obstacles

\* C5: ChallengeMode.update checks wall, self, obstacle, food in this order:
\* a head outside [0,W) x [0,H) gives (False, "Wall collision!") whatever else
\* holds; otherwise a head on a body segment of index >= 1 gives
\* (False, "Self collision!"); otherwise a head on an obstacle gives
\* (False, "Obstacle collision!"); and in all three cases the score, the
\* foods-eaten counter, the speed multiplier and the obstacles are unchanged,
\* also when the head is on the food.
C5_ChallengeCheckOrder ==
    Updated("Challenge") =>
        LET old == call.pre.body
            head == old[1]
            inside == /\ 0 <= head[1] /\ head[1] < grid_size[1]
                      /\ 0 <= head[2] /\ head[2] < grid_size[2]
        IN  IF ~inside
            THEN call.ret = <<FALSE, <<"Wall collision!">>>> /\ ChallengeUnchanged
            ELSE IF \E i \in 2 .. Len(old) : old[i] = head
            THEN call.ret = <<FALSE, <<"Self collision!">>>> /\ ChallengeUnchanged
            ELSE IF head \in call.pre.m.obstacles
            THEN call.ret = <<FALSE, <<"Obstacle collision!">>>> /\ ChallengeUnchanged
            ELSE TRUE

\* C5 witness: the head is on an obstacle and on the food, and the update
\* reports the obstacle.
C5_Witness ==
    /\ Updated("Challenge")
    /\ body[1] = food
    /\ body[1] \in obstacles
    /\ call.ret = <<FALSE, <<"Obstacle collision!">>>>

\* C6: ClassicMode.update returns (False, "Self collision!") and leaves the
\* score unchanged whenever the wrapped head is on a body segment of index
\* >= 1, also when the head is on the food.
C6_ClassicSelfCollision ==
    (/\ Updated("Classic")
     /\ \E i \in 2 .. Len(call.pre.body) :
            call.pre.body[i] = WrappedCell(call.pre.body[1]))
        => /\ call.ret = <<FALSE, <<"Self collision!">>>>
           /\ score = call.pre.m.score

\* C6 witness: the wrapped head is on a segment and on the food, and the update
\* reports the self-collision.
C6_Witness ==
    /\ Updated("Classic")
    /\ Len(body) >= 2
    /\ body[1] = body[2]
    /\ body[1] = food
    /\ call.ret[1] = FALSE

\* C7: ClassicMode.update with no self-collision: if the wrapped head is on the
\* food the score is one more and the result is (True, "Food eaten!");
\* otherwise the score is unchanged and the result is (True, None).
C7_ClassicFood ==
    (/\ Updated("Classic")
     /\ \A i \in 2 .. Len(call.pre.body) :
            call.pre.body[i] # WrappedCell(call.pre.body[1]))
        => IF WrappedCell(call.pre.body[1]) = food
           THEN /\ score = call.pre.m.score + 1
                /\ call.ret = <<TRUE, <<"Food eaten!">>>>
           ELSE /\ score = call.pre.m.score
                /\ call.ret = <<TRUE, <<>>>>

\* C7 witness: a head that left the grid is wrapped onto the food and eats it.
C7_Witness ==
    /\ Updated("Classic")
    /\ call.pre.body[1] # body[1]
    /\ body[1] = food
    /\ score = call.pre.m.score + 1
    /\ call.ret = <<TRUE, <<"Food eaten!">>>>

\* C8: TimedMode.update returns (False, "Time's up!") whenever the remaining
\* time is <= 0 after the timer update, for any snake and food; the check
\* comes before the wraparound, the self-collision and the food, so the head
\* is not wrapped and the score and the bonus are unchanged.
C8_TimedExpiry ==
    (Updated("Timed") /\ time_remaining <= 0)
        => /\ call.ret = <<FALSE, <<"Time's up!">>>>
           /\ body = call.pre.body
           /\ score = call.pre.m.score
           /\ bonus_points = call.pre.m.bonus_points

\* C8 witness: the time ran out in this update, with the head off the grid and
\* on the food.
C8_Witness ==
    /\ Updated("Timed")
    /\ call.pre.m.time_remaining > 0
    /\ time_remaining = 0
    /\ body[1][1] = -1
    /\ body[1] = food
    /\ call.ret = <<FALSE, <<"Time's up!">>>>

\* The last step was a tick whose update reported a food eaten.
AteFood == call.op = "update" /\ call.ret # <<>> /\ InMessage("Food eaten!", call.ret[2])

\* C9: in Timed mode, after any sequence of updates, the remaining time is
\* never negative, and the bonus awarded on a food consumption, the growth of
\* the bonus accumulator in that tick, is floor(remaining / time_limit x 10)
\* and lies in 0 .. 10.
C9_TimedBounds ==
    [][mode = "Timed"
          => /\ time_remaining' >= 0
             /\ AteFood' => /\ bonus_points' - bonus_points
                                  = (time_remaining' * 10) \div time_limit'
                             /\ bonus_points' - bonus_points \in 0 .. 10]_vars

\* C9, what the clamp at 0 and the floor do give: a tick in which the clock
\* is not set back keeps a remaining time within 0 .. time_limit there, and
\* awards a bonus within 0 .. 10.
C9_ForwardTick ==
    [][(mode = "Timed" /\ now' >= now /\ time_remaining \in 0 .. time_limit)
          => /\ time_remaining' \in 0 .. time_limit'
             /\ AteFood' => bonus_points' - bonus_points \in 0 .. 10]_vars

\* C9 witness: a food eaten with part of the time gone, for a bonus strictly
\* between 0 and 10.
C9_Witness ==
    /\ mode = "Timed"
    /\ AteFood
    /\ time_remaining \in 1 .. time_limit - 1
    /\ bonus_points = (time_remaining * 10) \div time_limit
    /\ bonus_points \in 1 .. 9

\* The double 1.0 + 0.15 * n, as Python evaluates it.
SpeedFormula(n) ==
    IF n = 0 THEN FloatOne
    ELSE FloatAdd(FloatOne, FloatTimesInt(CHALLENGE_SPEED_INCREMENT, n))

\* C10 as claimed: in Challenge mode, after any sequence of ticks, the speed
\* multiplier equals 1.0 + 0.15 x (number of food items consumed).
C10_SpeedMultiplier ==
    mode = "Challenge" => speed_multiplier = SpeedFormula(foods_eaten)

\* C10 as amended: in Challenge mode, after any sequence of ticks, the speed
\* multiplier is 1.0 with 0.15 added in double precision once per food item
\* consumed: it is 1.0 while no food has been consumed, every tick that
\* consumes food counts one more food and adds 0.15 to the multiplier, rounded
\* to the nearest double, and every other tick leaves both unchanged.
C10_SpeedAccumulates ==
    [][mode = "Challenge"
          => /\ foods_eaten' = 0 => speed_multiplier' = FloatOne
             /\ call'.op = "update"
                   => IF AteFood'
                      THEN /\ foods_eaten' = foods_eaten + 1
                           /\ speed_multiplier' =
                                  FloatAdd(speed_multiplier, CHALLENGE_SPEED_INCREMENT)
                      ELSE /\ foods_eaten' = foods_eaten
                           /\ speed_multiplier' = speed_multiplier]_vars

\* C10 witness: a second food consumed in one session, the multiplier being
\* 1.0 + 0.15 + 0.15, one unit in the last place below 1.0 + 0.15 * 2.
C10_Witness ==
    /\ mode = "Challenge"
    /\ AteFood
    /\ foods_eaten = 2
    /\ speed_multiplier = SpeedAfter(2)
    /\ speed_multiplier # SpeedFormula(2)

\* The cells of the grid that the snake and the obstacles left free when the
\* last call was made.
FreeBefore ==
    {p \in Cells(grid_size) :
        p \notin SnakePositions(call.pre.body) /\ p \notin call.pre.m.obstacles}

\* The last call was a challenge update that consumed food and brought the
\* foods-eaten count to a multiple of OBSTACLE_FREQUENCY.
ObstacleDue == Updated("Challenge") /\ AteFood /\ foods_eaten % OBSTACLE_FREQUENCY = 0

\* C11 as claimed: in Challenge mode an update adds an obstacle if and only if
\* it consumes food and the foods-eaten count after it is a positive multiple
\* of 3; exactly one obstacle is added then, so the obstacle count always
\* equals floor(foods_eaten / 3).
C11_ObstacleEveryThird ==
    Updated("Challenge") =>
        /\ call.pre.m.obstacles \subseteq obstacles
        /\ Cardinality(obstacles) =
               Cardinality(call.pre.m.obstacles) + (IF ObstacleDue THEN 1 ELSE 0)
        /\ Cardinality(obstacles) = foods_eaten \div OBSTACLE_FREQUENCY

\* C11 as amended: in Challenge mode an update adds an obstacle if and only if
\* it consumes food, the foods-eaten count after it is a positive multiple of
\* 3 and some cell is neither on the snake nor an obstacle; exactly one
\* obstacle is added then, on such a cell, so the obstacle count never exceeds
\* floor(foods_eaten / 3).
C11_ObstacleWhenRoom ==
    Updated("Challenge") =>
        /\ call.pre.m.obstacles \subseteq obstacles
        /\ obstacles \ call.pre.m.obstacles \subseteq FreeBefore
        /\ Cardinality(obstacles) =
               Cardinality(call.pre.m.obstacles)
                   + (IF ObstacleDue /\ FreeBefore # {} THEN 1 ELSE 0)
        /\ Cardinality(obstacles) <= foods_eaten \div OBSTACLE_FREQUENCY

\* C11 witness: the third food of a challenge mode brings its first obstacle,
\* on a cell off the snake.
C11_Witness ==
    /\ ObstacleDue
    /\ foods_eaten = OBSTACLE_FREQUENCY
    /\ call.pre.m.obstacles = {}
    /\ Cardinality(obstacles) = 1
    /\ obstacles \cap SnakePositions(body) = {}

\* The head that the move of a tick brings before the mode's food check: the
\* moved head, wrapped onto the grid in the modes that wrap.
LandingHead ==
    LET moved == MoveBody(body, direction, FALSE)
    IN  IF mode = "Challenge" THEN SnakeHead(moved)
        ELSE SnakeHead(WrapAroundMovement(grid_size, moved))

\* The step is a tick of a started game that is not over.
TickStep == call'.op = "update" /\ call'.n = call.n + 1

\* The score of a food in the mode, after the tick: 1, and the time bonus
\* floor(remaining / limit x 10) on top in Timed mode.
FoodAmount ==
    IF mode = "Timed" THEN 1 + (time_remaining' * 10) \div time_limit' ELSE 1

\* C12 as claimed: in every mode, a Game tick in which the head lands exactly
\* on the food increases the score by the mode's amount (1 in Classic and
\* Challenge, 1 + time bonus in Timed), grows the snake by exactly one
\* segment, and replaces the food by a position that is on no segment of the
\* grown snake.
C12_FoodTick ==
    [][(TickStep /\ LandingHead = food)
          => /\ score' = score + FoodAmount
             /\ Len(body') = Len(body) + 1
             /\ food' \notin SnakePositions(body')]_vars

\* C12 as amended: in every mode, a Game tick in which the head lands exactly
\* on the food and which the mode's earlier checks do not end consumes the
\* food: it increases the score by the mode's amount, grows the snake by
\* exactly one segment, and replaces the food by a position that is on no
\* segment of the grown snake, or by (0, 0) when the grown snake covers every
\* cell of the grid.
C12_FoodTickContinued ==
    [][(TickStep /\ LandingHead = food /\ ~game_over')
          => /\ AteFood'
             /\ score' = score + FoodAmount
             /\ Len(body') = Len(body) + 1
             /\ IF Cells(grid_size) \subseteq SnakePositions(body')
                THEN food' = <<0, 0>>
                ELSE food' \notin SnakePositions(body')]_vars

\* C12 witness: the first food of a session is eaten; the snake has one
\* segment more than it started with and the new food is off it.
C12_Witness ==
    /\ AteFood
    /\ score >= 1
    /\ Len(body) = DEFAULT_SNAKE_LENGTH + 1
    /\ food \in Cells(grid_size)
    /\ food \notin SnakePositions(body)

\* The step is reset_game, made for the key R of a game that is over: it leaves
\* a fresh snake and a fresh mode, not over and not started.
ResetStep ==
    /\ call'.op = "keydown" /\ call'.arg = "K_r"
    /\ body' = SnakeInitBody(StartPos(grid_size), DEFAULT_SNAKE_LENGTH)
    /\ direction' = DIRECTION_RIGHT
    /\ food' \in {sp.pos : sp \in Spawn(grid_size, body', {})}
    /\ <<score', time_limit', time_remaining', last_update', bonus_points',
          speed_multiplier', obstacles', foods_eaten'>>
           = <<0, DEFAULT_TIME_LIMIT, DEFAULT_TIME_LIMIT, <<>>, 0, FloatOne, {}, 0>>
    /\ ~game_over' /\ ~game_started'

\* C13: once a tick's mode update returns continue = false, game_over is true
\* at the end of that tick and stays true, and no later tick calls the mode's
\* update, moves the snake, changes the score or replaces the food, until
\* reset_game constructs a fresh snake, food and mode.
C13_GameOverHolds ==
    [][/\ (call'.op = "update" /\ call'.ret # <<>> /\ ~call'.ret[1]) => game_over'
       /\ game_over =>
             \/ /\ game_over'
                /\ call'.n = call.n
                /\ call'.op = "update" => call'.ret = <<>>
                /\ UNCHANGED <<snakeVars, food, modeVars>>
             \/ ResetStep]_vars

\* C13 witness: a tick of a started game that is over has gone by, and has
\* called no update.
C13_Witness ==
    /\ game_started /\ game_over
    /\ call.op = "update" /\ call.ret = <<>>
    /\ call.n >= 1

\* Some segment of the snake behind its head, at index >= 1 of the body
\* counted from 0, lies on p.
BehindHead(p) == \E i \in 2 .. Len(body) : body[i] = p

\* C14: has_self_collision() is true if and only if the head coordinate equals
\* some body coordinate at index >= 1, for every body of length >= 1; a body of
\* length 1 never self-collides.
C14_HasSelfCollision ==
    call.op = "has_self_collision" =>
        /\ call.ret <=> BehindHead(body[1])
        /\ Len(body) = 1 => call.ret = FALSE

\* C14 witness: a snake of two segments on one cell is found to collide with
\* itself.
C14_Witness ==
    /\ call.op = "has_self_collision"
    /\ Len(body) = 2 /\ body[1] = body[2]
    /\ call.ret = TRUE

\* The segments of the snake are pairwise distinct.
DistinctSegments == \A i, j \in 1 .. Len(body) : i # j => body[i] # body[j]

\* C15: check_collision(p) is true if and only if p equals a body coordinate at
\* index >= 1; for a snake whose segments are pairwise distinct,
\* check_collision(head) is false and check_collision of any non-head segment
\* is true.
C15_CheckCollision ==
    call.op = "check_collision" =>
        /\ call.ret <=> BehindHead(call.arg)
        /\ DistinctSegments =>
              /\ call.arg = body[1] => call.ret = FALSE
              /\ (\E i \in 2 .. Len(body) : call.arg = body[i]) => call.ret = TRUE

\* C15 witness: on a snake of two distinct segments the tail is found to
\* collide.
C15_Witness ==
    /\ call.op = "check_collision"
    /\ Len(body) = 2 /\ DistinctSegments
    /\ call.arg = body[2]
    /\ call.ret = TRUE

\* C16: Food.spawn returns a position inside [0, W) x [0, H) for every grid
\* with W, H >= 1, every snake body and every obstacle set, on every path, the
\* degenerate fallbacks included.
C16_SpawnInsideGrid ==
    call.op = "spawn" =>
        /\ call.ret.pos = food
        /\ IsWithinBounds(food, grid_size[1], grid_size[2])

\* C16 witness: a snake that covers the grid leaves the spawn its last
\* fallback, (0, 0).
C16_Witness ==
    /\ call.op = "spawn"
    /\ call.ret.path = "degenerate"
    /\ Cells(grid_size) \subseteq SnakePositions(body)
    /\ food = <<0, 0>>

\* C17: constructing a Snake with initial_length < 1 raises an error and
\* yields no snake; for initial_length n >= 1 (default 3) the body is exactly
\* the n cells (x - i, y) for i = 0 .. n - 1, with the head at the start
\* position, and the direction is right, (1, 0).
C17_SnakeCreation ==
    call.op = "Snake" =>
        LET x == call.arg[1][1]
            y == call.arg[1][2]
            n == call.arg[2]
        IN  IF n < 1
            THEN /\ call.ret = "ValueError"
                 /\ body = call.pre.body /\ direction = call.pre.direction
            ELSE /\ call.ret = ""
                 /\ Len(body) = n
                 /\ \A i \in 0 .. n - 1 : body[i + 1] = <<x - i, y>>
                 /\ body[1] = call.arg[1]
                 /\ direction = <<1, 0>>

\* C17 witness: a Snake of initial length 0 is asked for, and the constructor
\* raises.
C17_Witness ==
    /\ call.op = "Snake"
    /\ call.arg[2] = 0
    /\ call.ret = "ValueError"

\* What reset_game leaves apart from the food: a fresh snake of three segments
\* with its head at (W div 4, H div 2), heading right, a fresh mode of the
\* requested kind, and a game that is not started.
ResetIsFresh ==
    LET x == grid_size[1] \div 4
        y == grid_size[2] \div 2
    IN  /\ body = <<<<x, y>>, <<x - 1, y>>, <<x - 2, y>>>>
        /\ direction = <<1, 0>>
        /\ mode = call.arg
        /\ score = 0
        /\ game_over = FALSE
        /\ mode = "Challenge" =>
              obstacles = {} /\ foods_eaten = 0 /\ speed_multiplier = FloatOne
        /\ mode = "Timed" =>
              time_remaining = time_limit /\ bonus_points = 0
        /\ game_started = FALSE

\* C18 as claimed: after reset_game(mode) from any state, the session holds a
\* fresh length-3 snake with head at (W div 4, H div 2) heading right, a food
\* cell that is not on that snake, and a fresh mode of the requested kind with
\* score 0, game_over false, and (Challenge) no obstacles, zero foods eaten
\* and speed multiplier 1.0, (Timed) remaining time equal to the time limit
\* and zero bonus; the game is marked not started.
C18_ResetGame ==
    call.op = "reset_game" =>
        /\ ResetIsFresh
        /\ food \in Cells(grid_size)
        /\ food \notin SnakePositions(body)

\* C18 as amended: the same, with a food cell that is not on the snake on
\* every grid of more than one cell; on the 1 x 1 grid, which the snake
\* covers, the food is (0, 0), under the head.
C18_ResetGameWithRoom ==
    call.op = "reset_game" =>
        /\ ResetIsFresh
        /\ food \in Cells(grid_size)
        /\ IF grid_size = <<1, 1>>
           THEN food = <<0, 0>> /\ food = body[1]
           ELSE food \notin SnakePositions(body)

\* C18 witness: a Challenge game that is over, with an obstacle, is reset to a
\* Timed game; the food is off the new snake.
C18_Witness ==
    /\ call.op = "reset_game"
    /\ call.pre.game_over /\ call.pre.m.obstacles # {}
    /\ mode = "Timed" /\ time_remaining = DEFAULT_TIME_LIMIT
    /\ obstacles = {}
    /\ food \notin SnakePositions(body)

\* Food.spawn was called with occupied >= total: the snake's segments and the
\* obstacles number at least the cells of the grid.
SpawnHadNoRoom ==
    /\ call.op = "spawn"
    /\ Len(body) + Cardinality(obstacles) >= grid_size[1] * grid_size[2]

\* The cells of the grid that are not on the snake.
OffSnake == {p \in Cells(grid_size) : p \notin SnakePositions(body)}

\* The place of a cell in the scan by rows, (0,0), (1,0), ..., (W-1,0), (0,1),
\* ..., and in the scan by columns, (0,0), (0,1), ..., (0,H-1), (1,0), ...
RowMajorIndex(p) == p[2] * grid_size[1] + p[1]
ColumnMajorIndex(p) == p[1] * grid_size[2] + p[2]

\* C19 as claimed: when occupied = |snake| + |obstacles| >= width x height,
\* Food.spawn returns the first cell in row-major scan order that is not
\* occupied by the snake (obstacles ignored), and returns (0, 0) when the snake
\* covers every cell of the grid.
C19_FallbackRowMajor ==
    SpawnHadNoRoom =>
        IF OffSnake = {} THEN food = <<0, 0>>
        ELSE /\ food \in OffSnake
             /\ \A q \in OffSnake : RowMajorIndex(food) <= RowMajorIndex(q)

\* C19 as amended: when occupied >= width x height, Food.spawn returns the
\* first cell in column-major scan order (x in the outer loop, y in the inner
\* loop) that is not occupied by the snake (obstacles ignored), and returns
\* (0, 0) when the snake covers every cell of the grid.
C19_FallbackColumnMajor ==
    SpawnHadNoRoom =>
        /\ call.ret.path = "degenerate"
        /\ IF OffSnake = {} THEN food = <<0, 0>>
           ELSE /\ food \in OffSnake
                /\ \A q \in OffSnake : ColumnMajorIndex(food) <= ColumnMajorIndex(q)

\* C19 witness: on a crowded grid with the snake on (0, 0) and both (1, 0) and
\* (0, 1) off the snake, the food goes to (0, 1), an obstacle's cell.
C19_Witness ==
    /\ SpawnHadNoRoom
    /\ <<0, 0>> \in SnakePositions(body)
    /\ <<1, 0>> \in OffSnake
    /\ food = <<0, 1>>
    /\ food \in obstacles

\* The snake has moved since its session began: it is no longer the snake
\* that reset_game made.
HasMoved == body # SnakeInitBody(StartPos(grid_size), DEFAULT_SNAKE_LENGTH)

\* The direction of the snake's last move, in a mode that does not wrap the
\* head: the step from the second segment to the head.
LastMoveDirection == <<body[1][1] - body[2][1], body[1][2] - body[2][2]>>

\* C20: across any sequence of direction inputs and ticks, the direction used
\* by a snake move is never the exact opposite of the direction used by the
\* immediately preceding move, whatever number of change_direction calls
\* arrive between the two moves.
C20_NoReversal ==
    [][(TickStep /\ HasMoved) => direction # Opposite(LastMoveDirection)]_vars

\* C20, what change_direction does give: a tick that follows at most one
\* accepted direction key moves the snake in no direction opposite to its last
\* move; stated on the step of a direction key, the direction the key leaves
\* is never the opposite of the direction it found.
C20_OneKeyNoReversal ==
    [][(call'.op = "keydown" /\ call'.arg \in DirectionKeys)
          => direction' # Opposite(direction)]_vars

\* C20 witness: the snake has moved back onto its own neck, the move after a
\* turn up and a turn left between two ticks, and the mode has found the
\* self-collision.
C20_Witness ==
    /\ call.op = "update"
    /\ call.ret = <<FALSE, Message("Self collision!")>>
    /\ direction = DIRECTION_LEFT
    /\ Len(body) = DEFAULT_SNAKE_LENGTH
    /\ body[1] = body[3]

\* The cell the head entered in the first move of the tick just made: the
\* head, or the segment behind it when the tick went on to a second, growing
\* move.
EnteredCell == IF AteFood' THEN body'[2] ELSE body'[1]

\* C21: direction requests arriving between two ticks are applied by
\* overwrite with no queue: the direction used by the next move is the
\* candidate of the last accepted change_direction call since the previous
\* move, or the previous direction when no call was accepted, and no request
\* is carried over to a later tick.  Step by step: a direction key of a game
\* in play sets the direction to its candidate unless the candidate is the
\* opposite of the direction set, which stays; nothing else but a reset
\* touches the direction; a tick moves the head by the direction set and
\* leaves it set.
C21_LastWriteWins ==
    [][/\ (call'.op = "keydown" /\ call'.arg \in DirectionKeys) =>
             direction' = IF /\ game_started /\ ~game_over
                             /\ DirectionMap(call'.arg) # Opposite(direction)
                          THEN DirectionMap(call'.arg)
                          ELSE direction
       /\ (call'.op = "keydown" /\ call'.arg \notin DirectionKeys \cup {"K_r"}) =>
             direction' = direction
       /\ call'.op \in {"quit", "update"} => direction' = direction
       /\ TickStep => EnteredCell = PointAdd(body[1], direction)]_vars

\* C21 witness: a tick has moved the snake left, the direction that the second
\* of two keys pressed between two ticks, up and then left, left set.
C21_Witness ==
    /\ call.op = "update" /\ call.n >= 2
    /\ HasMoved
    /\ direction = DIRECTION_LEFT
    /\ LastMoveDirection = DIRECTION_LEFT

\* Every segment of the snake lies on the grid.
BodyOnGrid ==
    \A i \in 1 .. Len(body) : IsWithinBounds(body[i], grid_size[1], grid_size[2])

\* C22: in Classic and Timed mode, after every completed Game tick starting
\* from a reset on a grid where the initial snake fits, every snake body
\* segment, not only the head, lies inside [0, W) x [0, H), including on ticks
\* that consume food next to a grid edge.
C22_BodyInsideGrid ==
    (mode \in {"Classic", "Timed"} /\ ~game_over) => BodyOnGrid

\* C22 witness: a classic game goes on after a tick that consumed the food of
\* the last column and left the head one column beyond the grid.
C22_Witness ==
    /\ mode = "Classic" /\ ~game_over
    /\ AteFood
    /\ body[1] = <<grid_size[1], 0>>
    /\ body[2] = <<grid_size[1] - 1, 0>>

\* C23: in Challenge mode, in every reachable state where game_over is false,
\* the head is inside the grid and is not on an obstacle cell: the game ends
\* in the same tick in which the head leaves the grid or enters an obstacle
\* cell, also when that happens on a tick that consumes food.
C23_HeadInsideOffObstacles ==
    (mode = "Challenge" /\ ~game_over) =>
        /\ IsWithinBounds(body[1], grid_size[1], grid_size[2])
        /\ body[1] \notin obstacles

\* C23 witness: a challenge game goes on after the tick that consumed its
\* third food, on the last column, with the head beyond the wall and the first
\* obstacle placed.
C23_Witness ==
    /\ mode = "Challenge" /\ ~game_over
    /\ AteFood /\ foods_eaten = OBSTACLE_FREQUENCY
    /\ body[1] = <<grid_size[1], 0>>
    /\ Cardinality(obstacles) = 1

\* C24: in Challenge mode, in every reachable state, the obstacle set contains
\* no cell of the snake body and does not contain the food cell.
C24_ObstaclesOffSnakeAndFood ==
    mode = "Challenge" =>
        /\ obstacles \cap SnakePositions(body) = {}
        /\ food \notin obstacles

\* C24 witness: the tick that consumed the third food placed the first
\* obstacle on the cell ahead of the head and then moved the head onto it; the
\* game goes on.
C24_Witness ==
    /\ mode = "Challenge" /\ ~game_over
    /\ AteFood /\ foods_eaten = OBSTACLE_FREQUENCY
    /\ obstacles = {body[1]}
    /\ IsWithinBounds(body[1], grid_size[1], grid_size[2])

\* C25: in every mode, in every reachable state where game_over is false, the
\* snake body's segments are pairwise distinct: a tick that makes the head
\* coincide with another segment ends the game in that same tick, including
\* ticks that consume food.
C25_SegmentsDistinct == ~game_over => DistinctSegments

\* C25 witness: a game goes on after a tick that consumed food and moved the
\* head on, onto a segment of the snake.
C25_Witness ==
    /\ ~game_over
    /\ AteFood
    /\ \E i \in 2 .. Len(body) : body[i] = body[1]

\* The cell one step ahead of the head in the direction set, on the torus in the
\* modes that wrap.
CellAhead ==
    LET ahead == PointAdd(body[1], direction)
    IN  IF mode = "Challenge" THEN ahead ELSE WrappedCell(ahead)

\* C26: in every Game tick that is processed (started and not game over), the
\* head advances by exactly one cell in the current direction (modulo the grid
\* in Classic/Timed), and the mode's collision and food checks are applied to
\* every cell the head enters; this holds on ticks that consume food as well
\* as on ticks that do not.
C26_OneCellPerTick ==
    [][TickStep => body'[1] = CellAhead]_vars

\* C26, what the code gives: a processed tick that does not consume food
\* leaves the head on the cell ahead, unwrapped at a Timed game's expiry; a
\* tick that consumes food leaves the segment behind the head on the cell
\* ahead and the head one unwrapped step further.
C26_OneCellUnlessFood ==
    [][TickStep =>
          IF AteFood'
          THEN /\ body'[2] = CellAhead
               /\ body'[1] = PointAdd(body'[2], direction)
          ELSE body'[1] \in {CellAhead, PointAdd(body[1], direction)}]_vars

\* C26 witness: a tick has consumed food and left the head two cells from
\* where it was, the snake one segment longer.
C26_Witness ==
    /\ AteFood /\ call.n = 1
    /\ Len(body) = DEFAULT_SNAKE_LENGTH + 1
    /\ body[1] = PointAdd(PointAdd(StartPos(grid_size), direction), direction)
    /\ body[3] = StartPos(grid_size)

\* The cells of the grid that are neither on the snake nor an obstacle.
FreeCells == {p \in OffSnake : p \notin obstacles}

\* C27: Food.spawn returns a cell that is neither on the snake nor an obstacle
\* whenever at least one such in-grid cell exists, for every snake body and
\* obstacle set the game can pass to it, including bodies with segments
\* outside the grid, repeated segments, or segments that coincide with
\* obstacles.
C27_SpawnFreeWhenAny ==
    (call.op = "spawn" /\ FreeCells # {}) => food \in FreeCells

\* C27 witness: a snake with a segment outside the grid and an obstacle number
\* as many as the cells of the grid; a cell is free, and the food is put on
\* the obstacle.
C27_Witness ==
    /\ call.op = "spawn" /\ call.ret.path = "degenerate"
    /\ \E i \in 1 .. Len(body) : ~IsWithinBounds(body[i], grid_size[1], grid_size[2])
    /\ FreeCells # {}
    /\ food \in obstacles

\* C28: in every reachable state of a started game where game_over is false,
\* at the end of a tick the food cell does not coincide with any snake body
\* segment.
C28_FoodOffSnake ==
    (game_started /\ ~game_over /\ call.op = "update") =>
        food \notin SnakePositions(body)

\* C28 as amended: in every reachable state of a started game where game_over
\* is false, at the end of a tick the food cell does not coincide with any
\* snake body segment, unless the snake covers every cell of the grid; the
\* food is then (0, 0).
C28_FoodOffSnakeWithRoom ==
    (game_started /\ ~game_over /\ call.op = "update") =>
        IF Cells(grid_size) \subseteq SnakePositions(body)
        THEN food = <<0, 0>>
        ELSE food \notin SnakePositions(body)

\* C28 witness: a game goes on after a tick that consumed food; the snake
\* leaves cells free and the new food is on one of them.
C28_Witness ==
    /\ game_started /\ ~game_over
    /\ AteFood
    /\ ~(Cells(grid_size) \subseteq SnakePositions(body))
    /\ food \in Cells(grid_size) \ SnakePositions(body)

\* C29: the first update of a TimedMode (no baseline yet) records the clock
\* reading as the baseline and leaves the remaining time as it was, the time
\* limit for a mode just constructed; every later update with the reading t
\* sets remaining = max(0, remaining - (t - last_timestamp)) and
\* last_timestamp = t; when the reading is not before the last one the
\* remaining time does not increase.
C29_UpdateTimer ==
    (call.op = "update" /\ mode = "Timed") =>
        LET pre == call.pre.m
            t == now
        IN  /\ last_update = <<t>>
            /\ time_limit = pre.time_limit
            /\ IF pre.last_update = <<>>
               THEN /\ time_remaining = pre.time_remaining
                    /\ pre.time_remaining = time_limit => time_remaining = time_limit
               ELSE LET left == pre.time_remaining - (t - pre.last_update[1])
                    IN  /\ time_remaining = IF left >= 0 THEN left ELSE 0
                        /\ t >= pre.last_update[1] =>
                               time_remaining <= pre.time_remaining

\* C29 witness: a later update reads the clock past what was left and the
\* remaining time stops at zero.
C29_Witness ==
    /\ call.op = "update" /\ mode = "Timed"
    /\ call.pre.m.last_update = <<0>>
    /\ call.pre.m.time_remaining > 0
    /\ now > call.pre.m.time_remaining
    /\ time_remaining = 0
    /\ last_update = <<now>>

\* C29 also at its first case: a mode just constructed takes its first update.
C29_FirstUpdate ==
    /\ call.op = "update" /\ mode = "Timed"
    /\ call.pre.m.last_update = <<>>
    /\ call.pre.m.time_remaining = time_limit
    /\ now # 0
    /\ time_remaining = time_limit
    /\ last_update = <<now>>

\* The foods the snake of a session has consumed: each one grew it by a segment.
FoodsConsumed == Len(body) - DEFAULT_SNAKE_LENGTH

\* C30: in Timed mode, after any sequence of ticks, score = (number of food
\* items consumed) + bonus_points: a tick that consumes food adds 1 + bonus to
\* the score and bonus to the bonus accumulator, with bonus =
\* floor(remaining / limit x 10) of the remaining time after the tick's timer
\* update, and no other tick changes either value.
C30_TimedScore ==
    [][mode = "Timed" =>
          /\ score' = FoodsConsumed' + bonus_points'
          /\ (TickStep /\ AteFood') =>
                 LET bonus == (time_remaining' * 10) \div time_limit'
                 IN  /\ score' = score + 1 + bonus
                     /\ bonus_points' = bonus_points + bonus
                     /\ FoodsConsumed' = FoodsConsumed + 1
          /\ (call'.op = "update" /\ ~AteFood') =>
                 /\ score' = score
                 /\ bonus_points' = bonus_points
                 /\ FoodsConsumed' = FoodsConsumed]_vars

\* C30 witness: a timed session has consumed two foods, the later one after
\* the timer ran, and has earned bonus points for them.
C30_Witness ==
    /\ mode = "Timed" /\ AteFood
    /\ FoodsConsumed = 2
    /\ time_remaining < time_limit
    /\ bonus_points > 0
    /\ score = 2 + bonus_points

\* The step is the key R: the one step that can start a session afresh.
KeyRStep == call'.op = "keydown" /\ call'.arg = "K_r"

\* C31: since a reset the snake's length is 3 + the foods consumed: a tick
\* that consumes food adds one segment and no other tick changes the length;
\* the length is 3 + score in Classic and Challenge mode (3 + foods_eaten in
\* Challenge mode); short of a reset the length and the score never decrease,
\* and the length is always >= 1.
C31_LengthAndScore ==
    [][/\ Len(body') >= 1
       /\ mode' \in {"Classic", "Challenge"} =>
              Len(body') = DEFAULT_SNAKE_LENGTH + score'
       /\ mode' = "Challenge" => Len(body') = DEFAULT_SNAKE_LENGTH + foods_eaten'
       /\ call'.op = "update" =>
              Len(body') = Len(body) + IF TickStep /\ AteFood' THEN 1 ELSE 0
       /\ ~KeyRStep => (Len(body') >= Len(body) /\ score' >= score)]_vars

\* C31 witness: a classic session has consumed two foods; the snake has five
\* segments and the score is 2.
C31_Witness ==
    /\ mode = "Classic" /\ AteFood
    /\ score = 2
    /\ Len(body) = DEFAULT_SNAKE_LENGTH + 2

\* C32: an obstacle that a challenge update adds is a cell of the grid that,
\* when it is placed, is not on the snake's body and is not an obstacle yet;
\* when no such cell exists the placement is skipped without error: the
\* update still returns (true, "Food eaten!") and the foods-eaten counter,
\* the score and the speed still advance; an update removes no obstacle.
C32_ObstaclePlacement ==
    Updated("Challenge") =>
        /\ call.pre.m.obstacles \subseteq obstacles
        /\ \A pos \in obstacles \ call.pre.m.obstacles :
               /\ IsWithinBounds(pos, grid_size[1], grid_size[2])
               /\ pos \notin SnakePositions(call.pre.body)
        /\ (ObstacleDue /\ FreeBefore = {}) =>
               /\ obstacles = call.pre.m.obstacles
               /\ call.ret = <<TRUE, Message("Food eaten!")>>
               /\ foods_eaten = call.pre.m.foods_eaten + 1
               /\ score = call.pre.m.score + 1
               /\ speed_multiplier =
                      FloatAdd(call.pre.m.speed_multiplier, CHALLENGE_SPEED_INCREMENT)

\* C32 witness: the third food is consumed with the snake on every cell that
\* holds no obstacle; no obstacle is added and the counter still advances.
C32_Witness ==
    /\ ObstacleDue
    /\ FreeBefore = {}
    /\ obstacles = call.pre.m.obstacles
    /\ foods_eaten = call.pre.m.foods_eaten + 1
    /\ call.ret[1] = TRUE

\* C32 in a session: no step but the key R takes an obstacle away.
C32_ObstaclesKept == [][~KeyRStep => obstacles \subseteq obstacles']_vars

\* The session's state but the ghost record of the last step.
sessionVars == <<snakeVars, food, modeVars, gameVars, now>>

\* C33: before SPACE starts the game, Game.update changes nothing (snake,
\* food, score, mode state) and a direction key does not change the snake's
\* direction; after game over, a direction key and SPACE change nothing.
C33_GatedByPlayState ==
    [][/\ (call'.op = "update" /\ ~game_started) =>
              UNCHANGED <<snakeVars, food, modeVars, now>>
       /\ (call'.op = "keydown" /\ call'.arg \in DirectionKeys /\ ~game_started) =>
              UNCHANGED sessionVars
       /\ (call'.op = "keydown" /\ call'.arg \in DirectionKeys \cup {"K_SPACE"}
              /\ game_over) =>
              UNCHANGED sessionVars]_vars

\* C33 witness: a direction key that would turn the snake has been pressed
\* after game over, and the snake keeps its direction.
C33_Witness ==
    /\ call.op = "keydown" /\ call.arg \in DirectionKeys
    /\ game_over /\ game_started
    /\ DirectionMap(call.arg) \notin {direction, Opposite(direction)}

\* C33 also before the start: a direction key that would turn the snake has
\* been pressed before SPACE.
C33_BeforeStart ==
    /\ call.op = "keydown" /\ call.arg \in DirectionKeys
    /\ ~game_started
    /\ DirectionMap(call.arg) \notin {direction, Opposite(direction)}

\* What the keys R, M and Q do on a step, with after_q the value of
\* return_to_menu that Q leaves: over a finished game R resets the session
\* with the same mode kind and leaves the loop running, M stops the loop with
\* return_to_menu = true, Q stops the loop; over a game that is not over the
\* three change nothing; the session is reset, and return_to_menu changes,
\* from a finished game alone.
KeysOfGameOver(after_q) ==
    /\ (KeyRStep /\ game_over) =>
           /\ ResetStep
           /\ mode' = mode
           /\ running' /\ ~return_to_menu'
    /\ (call'.op = "keydown" /\ call'.arg = "K_m" /\ game_over) =>
           /\ ~running' /\ return_to_menu'
           /\ UNCHANGED <<snakeVars, food, modeVars, game_started>>
    /\ (call'.op = "keydown" /\ call'.arg = "K_q" /\ game_over) =>
           /\ ~running' /\ return_to_menu' = after_q
           /\ UNCHANGED <<snakeVars, food, modeVars, game_started>>
    /\ (call'.op = "keydown" /\ call'.arg \in {"K_r", "K_m", "K_q"} /\ ~game_over) =>
           UNCHANGED sessionVars
    /\ (return_to_menu' # return_to_menu \/ (game_started /\ ~game_started')) =>
           game_over

\* C34 as claimed: the keys R, M and Q act only when game_over is true: R
\* resets the session with the same mode kind and keeps the game running, M
\* stops the loop with return_to_menu = true, Q stops the loop with
\* return_to_menu = false; while game_over is false none of the three changes
\* any session state.
C34_KeysOfGameOver == [][KeysOfGameOver(FALSE)]_vars

\* C34 as amended: as claimed, but Q stops the loop and leaves return_to_menu
\* as it is: false, unless the key M came before Q among the events of the
\* same handle_input.
C34_KeysOfGameOverQKeeps == [][KeysOfGameOver(return_to_menu)]_vars

\* C34 witness: Q has been pressed over a finished game: the loop is stopped
\* and the session does not return to the menu.
C34_Witness ==
    /\ call.op = "keydown" /\ call.arg = "K_q"
    /\ game_over
    /\ ~running /\ ~return_to_menu

\* M, then Q, over a finished game: the loop is stopped and returns to the menu.
C34_QAfterM ==
    /\ call.op = "keydown" /\ call.arg = "K_q"
    /\ game_over
    /\ ~running /\ return_to_menu

\* SPACE has started the first game of the session and no tick has run yet.
FirstGameStarted == game_started /\ call.n = 0

\* C35: in Timed mode, when ticks keep being processed and the clock advances
\* by a positive amount between two ticks, a started game eventually reaches
\* game_over, whatever the keys and however much food is eaten; and no step
\* but a reset raises the remaining time.
C35_TimedGameEnds ==
    /\ FirstGameStarted ~> game_over
    /\ [][~KeyRStep => time_remaining' <= time_remaining]_vars

\* C35 witness: a timed game that has eaten food ends on the expiry of its time.
C35_Witness ==
    /\ mode = "Timed" /\ game_over
    /\ call.op = "update" /\ call.ret # <<>>
    /\ InMessage("Time's up!", call.ret[2])
    /\ time_remaining = 0
    /\ score > 0

====
